---- MODULE Spec2Model ----
(***************************************************************************)
(* Model of the action execution engine of the workbench:                  *)
(*   src/app/lib/runtime/action-runner.ts   (class ActionRunner)           *)
(*   src/app/lib/smartcontracts/compiler.ts (class SmartContractCompiler)  *)
(*                                                                         *)
(* The runner keeps a store of action records and one promise chain        *)
(* (#currentExecutionPromise).  Promises are modelled by their index in    *)
(* the chain: promise 0 is the initial Promise.resolve(), promise k is the *)
(* one runAction created for the k-th finalized action.  Promise reactions *)
(* run as microtasks, in FIFO order; callers of the public methods may     *)
(* themselves run between two microtasks.                                  *)
(*                                                                         *)
(* The contract panel compiles on its own, through sandbox processes:      *)
(*   src/app/components/workbench/ContractPanel.tsx                        *)
(***************************************************************************)
EXTENDS Integers, Sequences, FiniteSets, TLC

\* ------------------------------------------------------------------ bounds
\* Number of action identifiers the upstream parser hands out.
MaxActions == 2

Ids == 1..MaxActions

\* Number of abort() calls made on the records.
MaxAborts == 1

\* Number of calls of addAction, runAction and abort() that change the state.
MaxEvents == 5

\* Clicks on Compile in the contract panel.
MaxJobs == 2

\* ------------------------------------------------------- values and paths
\* A key that is absent from an object / a value that is undefined.
None == "undefined"

\* No record under this identifier in the store.
NoAction == [status |-> "absent", executed |-> FALSE]

\* Paths are sequences of tokens; "/" and "." are the separator tokens.
DefaultOutputDir == <<"contracts", "/", "artifacts">>

RECURSIVE LastIndexOf(_, _, _)
\* The largest index i <= n with s[i] = tok, 0 when there is none.
LastIndexOf(s, tok, n) ==
    IF n = 0 THEN 0
    ELSE IF s[n] = tok THEN n ELSE LastIndexOf(s, tok, n - 1)

RECURSIVE StripTrailingSlashes(_)
StripTrailingSlashes(p) ==
    IF Len(p) > 0 /\ p[Len(p)] = "/"
    THEN StripTrailingSlashes(SubSeq(p, 1, Len(p) - 1))
    ELSE p

\* nodePath.dirname for paths without trailing slashes.
Dirname(p) ==
    LET i == LastIndexOf(p, "/", Len(p))
    IN  IF i = 0 THEN <<".">>
        ELSE IF i = 1 THEN <<"/">>
        ELSE SubSeq(p, 1, i - 1)

\* The last path segment (nodePath.basename with one argument).
LastSegment(p) ==
    LET i == LastIndexOf(p, "/", Len(p))
    IN  SubSeq(p, i + 1, Len(p))

\* nodePath.extname: from the last "." of the last segment, empty when there
\* is none or when it is the segment's first character.
Extname(p) ==
    LET seg == LastSegment(p)
        i   == LastIndexOf(seg, ".", Len(seg))
    IN  IF i <= 1 THEN <<>> ELSE SubSeq(seg, i, Len(seg))

\* nodePath.basename(p, ext)
Basename(p, ext) ==
    LET seg == LastSegment(p)
        n   == Len(seg) - Len(ext)
    IN  IF Len(ext) > 0 /\ n > 0 /\ SubSeq(seg, n + 1, Len(seg)) = ext
        THEN SubSeq(seg, 1, n)
        ELSE seg

\* nodePath.join(dir, name) for a non-empty relative dir
Join(dir, name) == StripTrailingSlashes(dir) \o <<"/">> \o name

\* const folder = dirname(filePath).replace(/\/+$/g, '')
Folder(filePath) == StripTrailingSlashes(Dirname(filePath))

\* action.outputDir || 'contracts/artifacts'
OutputDir(a) ==
    IF "outputDir" \notin a.keys \/ a.outputDir = <<>> THEN DefaultOutputDir ELSE a.outputDir

OutputPath(a) == Join(OutputDir(a), Basename(a.filePath, Extname(a.filePath)))

BinPath(a)      == OutputPath(a) \o <<".", "bin">>
AbiPath(a)      == OutputPath(a) \o <<".", "abi", ".", "json">>
MetadataPath(a) == OutputPath(a) \o <<".", "metadata", ".", "json">>
ReportPath(a)   == OutputPath(a) \o <<".", "report", ".", "json">>
ErrorPath(a)    == OutputPath(a) \o <<".", "error", ".", "json">>

\* ------------------------------------------------------------ input data
\* What the parser streams for one action: the callback data's `action`.
\* Registration happens when the action's opening tag has been parsed, so the
\* content is still empty; the finalize event carries the complete content.
PartialContent == ""

FinalContents == {"hi"}

\* `keys` lists the keys the object has; a key outside it is absent.
FileKeys == {"type", "content", "filePath"}

ShellKeys == {"type", "content"}

ContractKeys == {"type", "content", "filePath", "language"}

NoPath == <<>>

Templates ==
    { [keys |-> FileKeys, type |-> "file", content |-> PartialContent,
       filePath |-> <<"d", "/", "a">>, language |-> None, outputDir |-> NoPath],
      [keys |-> ShellKeys, type |-> "shell", content |-> PartialContent,
       filePath |-> NoPath, language |-> None, outputDir |-> NoPath],
      [keys |-> ContractKeys, type |-> "contract", content |-> PartialContent,
       filePath |-> <<"src", "/", "C", ".", "sol">>, language |-> "solidity",
       outputDir |-> NoPath] }

\* Contract actions in the two languages compiled without solc.
ContractTemplates ==
    { [keys |-> ContractKeys, type |-> "contract", content |-> PartialContent,
       filePath |-> <<"src", "/", "lib", ".", "rs">>, language |-> "rust",
       outputDir |-> NoPath],
      [keys |-> ContractKeys, type |-> "contract", content |-> PartialContent,
       filePath |-> <<"src", "/", "c", ".", "js">>, language |-> "javascript",
       outputDir |-> NoPath] }

\* The finalize event of an action registered as `a`: the same action with
\* its content complete.
FinalizeData(a) ==
    IF a = NoAction THEN {} ELSE
    { [keys |-> a.keys, type |-> a.type, content |-> c, filePath |-> a.filePath,
       language |-> a.language, outputDir |-> a.outputDir] : c \in FinalContents }

\* The events of the parser: an action's first registration carries a
\* template, its first finalize event the complete content, and a repeated
\* event of either kind any of the content streamed so far.
Registrations ==
    Templates \cup {[t EXCEPT !.content = c] : t \in Templates, c \in FinalContents}

ContractRegistrations ==
    ContractTemplates
        \cup {[t EXCEPT !.content = c] : t \in ContractTemplates, c \in FinalContents}

\* A repeated registration or finalize event of an action registered as `a`:
\* the parser announces the same action again.
Announcements(a) ==
    {t \in Registrations \cup ContractRegistrations :
        t.type = a.type /\ t.filePath = a.filePath /\ t.language = a.language}

FinalizeEvents == UNION {FinalizeData(t) : t \in Templates}

NoData == [keys |-> {}]

ExitCodes == {0, 1}

\* Content of a sandbox file written by a file action.
Text(c) == [kind |-> "text", text |-> c]

\* The sandbox holds the contract source before the session starts.
InitialFiles == (<<"src", "/", "C", ".", "sol">> :> Text("contract C {}"))

\* Source texts of the rust and JavaScript contracts: one that
\* `new Function` accepts and one that is a syntax error in both languages.
ContractSources == {"hi", "fn f("}

\* The sandbox of a session with a rust and a JavaScript contract.
ContractFiles(rs, js) ==
    (<<"src", "/", "lib", ".", "rs">> :> Text(rs)) @@ (<<"src", "/", "c", ".", "js">> :> Text(js))

\* ------------------------------------------------------------ the compiler
\* What solc.compile returns (compiler.ts line 79), parsed: its diagnostics,
\* each with a severity, and whether output.contracts[fileName] is there.
SolcOutputs ==
    { [errors |-> <<[severity |-> "warning", formattedMessage |-> "unused variable"]>>,
       contracts |-> TRUE],
      [errors |-> <<[severity |-> "error", formattedMessage |-> "bad syntax"],
                    [severity |-> "warning", formattedMessage |-> "unused variable"]>>,
       contracts |-> TRUE],
      [errors |-> <<>>, contracts |-> FALSE] }

RECURSIVE FilterSeverity(_, _)
\* output.errors.filter(e => e.severity === sev).map(e => e.formattedMessage)
FilterSeverity(errs, sev) ==
    IF errs = <<>> THEN <<>>
    ELSE IF Head(errs).severity = sev
         THEN <<Head(errs).formattedMessage>> \o FilterSeverity(Tail(errs), sev)
         ELSE FilterSeverity(Tail(errs), sev)

\* A CompilationResult; an absent string is None, an absent list is empty
\* (every reader of the lists uses `|| []` or tests `.length`).
CompilationResult(success, bytecode, abi, metadata, errors, warnings) ==
    [compiled |-> TRUE, success |-> success, bytecode |-> bytecode, abi |-> abi,
     metadata |-> metadata, errors |-> errors, warnings |-> warnings]

\* compileSolidity, compiler.ts lines 78-117, on solc's output
CompileSolidity(output) ==
    IF FilterSeverity(output.errors, "error") # <<>>
    THEN CompilationResult(FALSE, None, None, None,
                           FilterSeverity(output.errors, "error"),
                           FilterSeverity(output.errors, "warning"))
    ELSE IF ~output.contracts
    THEN CompilationResult(FALSE, None, None, None,
                           <<"No contracts found in source code">>, <<>>)
    ELSE CompilationResult(TRUE, "6080", "abi", "metadata", <<>>,
                           FilterSeverity(output.errors, "warning"))

\* Variant: the rust placeholder reports success.
CompileRust_ReportsSuccess(sourceCode) ==
    CompilationResult(TRUE, sourceCode, "[]", None, <<>>, <<>>)

\* compileRust, compiler.ts lines 127-134
CompileRust(sourceCode) ==
    CompilationResult(FALSE, None, None, None,
        <<"Rust compilation not yet implemented. Use shell actions with cargo build instead.">>,
        <<>>)

\* Sources `new Function(sourceCode)` accepts.
ValidJavaScript == {"", "hi"}

\* compileJavaScript, compiler.ts lines 136-153
CompileJavaScript(sourceCode) ==
    IF sourceCode \in ValidJavaScript
    THEN CompilationResult(TRUE, sourceCode, "[]", None, <<>>, <<>>)
    ELSE CompilationResult(FALSE, None, None, None, <<"JavaScript syntax error">>, <<>>)

\* compile, compiler.ts lines 155-178
Compile(sourceCode, language, output) ==
    CASE language = "solidity" -> CompileSolidity(output)
      [] language = "rust" -> CompileRust(sourceCode)
      [] language = "javascript" -> CompileJavaScript(sourceCode)
      [] OTHER -> CompilationResult(FALSE, None, None, None, <<"Unsupported language">>, <<>>)

\* A JavaScript value used as a condition: undefined and '' are falsy.
Truthy(v) == v # None /\ v # ""

\* The success report, action-runner.ts lines 238-248 (compiledAt is a clock
\* reading and is left out, as are target and gasEstimates).
Report(action, res) ==
    [kind |-> "json", success |-> TRUE, fileName |-> action.filePath,
     language |-> action.language, warnings |-> res.warnings]

\* Variant: the error report is written with an empty error list.
ErrorReport_NoErrors(action, res) ==
    [kind |-> "json", success |-> FALSE, fileName |-> action.filePath,
     language |-> action.language, errors |-> <<>>, warnings |-> res.warnings]

\* The error report, action-runner.ts lines 258-267
ErrorReport(action, res) ==
    [kind |-> "json", success |-> FALSE, fileName |-> action.filePath,
     language |-> action.language, errors |-> res.errors, warnings |-> res.warnings]

\* ------------------------------------------------------------------ state
VARIABLES
    actions,       \* this.actions: id -> record, NoAction when absent
    abortSignal,   \* id -> abortController.signal.aborted
    chain,         \* ids in the order runAction chained them; promise k runs chain[k]
    promiseState,  \* promise index -> "pending" | "fulfilled" | "rejected"
    reactions,     \* promise index -> reactions registered while it was pending
    microtasks,    \* reaction jobs ready to run, FIFO
    pc,            \* id -> position of #executeAction / its handler
    snap,          \* id -> the `action` constant read at #executeAction's start
    proc,          \* id -> the subprocess a shell action spawned
    result,        \* id -> the compiler result of a contract action
    fs,            \* sandbox files: path -> content
    started,       \* log: ids in the order their handlers were invoked
    finalizeEvt,   \* log: id -> the data of the finalize event that dispatched it
    firstAbort,    \* log: id -> the record's situation at the first abort() call
    outcome,       \* log: id -> how #executeAction ended
    written,       \* log: id -> the handler positions whose writeFile succeeded
    nAborts,       \* log: number of abort() calls made
    rejected,      \* log: id -> the handler positions whose sandbox call rejected
    unknownRuns,   \* log: the runAction calls for an identifier without a record,
                   \*      and how many of them threw
    compilationJobs,  \* ContractPanel: the job list, newest first
    compileCalls,     \* ContractPanel: call -> position of handleCompileContract
    clock             \* ContractPanel: the last reading of Date.now()

vars == <<actions, abortSignal, chain, promiseState, reactions, microtasks, pc, snap,
          proc, result, fs, started, finalizeEvt, firstAbort, outcome, written, nAborts,
          rejected, unknownRuns, compilationJobs, compileCalls, clock>>

runnerVars == <<actions, abortSignal, chain, promiseState, reactions, microtasks, pc, snap,
                proc, result, fs, started, finalizeEvt, firstAbort, outcome, written,
                nAborts, rejected, unknownRuns>>

panelVars == <<compilationJobs, compileCalls, clock>>

Promises == 0..(MaxActions + 1)

NoProc == [state |-> "none", listener |-> FALSE, killed |-> FALSE, exitCode |-> -1]

NoResult == [success |-> FALSE, compiled |-> FALSE]

NoAbort == [status |-> "none", executed |-> FALSE, pc |-> "none"]

Executing == {"spawn", "exit", "mkdir", "writeFile", "readFile", "outDir",
              "bin", "abi", "metadata", "report", "errorReport"}

Terminal == {"complete", "aborted", "failed"}

\* A click on Compile that has not been made yet.
NoCall == [pc |-> "idle", jobId |-> 0, language |-> None, exitCode |-> -1]

Booted(files) ==
    /\ actions = [i \in Ids |-> NoAction]
    /\ abortSignal = [i \in Ids |-> FALSE]
    /\ chain = <<>>
    /\ promiseState = [k \in Promises |-> IF k = 0 THEN "fulfilled" ELSE "pending"]
    /\ reactions = [k \in Promises |-> <<>>]
    /\ microtasks = <<>>
    /\ pc = [i \in Ids |-> "idle"]
    /\ snap = [i \in Ids |-> NoAction]
    /\ proc = [i \in Ids |-> NoProc]
    /\ result = [i \in Ids |-> NoResult]
    /\ fs = files
    /\ started = <<>>
    /\ finalizeEvt = [i \in Ids |-> NoData]
    /\ firstAbort = [i \in Ids |-> NoAbort]
    /\ outcome = [i \in Ids |-> "none"]
    /\ written = [i \in Ids |-> {}]
    /\ nAborts = 0
    /\ rejected = [i \in Ids |-> {}]
    /\ unknownRuns = [calls |-> 0, thrown |-> 0]
    /\ compilationJobs = <<>>
    /\ compileCalls = [h \in 1..MaxJobs |-> NoCall]
    /\ clock = 1

Init == Booted(InitialFiles)

\* A session whose sandbox holds a rust and a JavaScript contract source.
ContractInit == \E rs \in ContractSources, js \in ContractSources : Booted(ContractFiles(rs, js))

\* --------------------------------------------------------------- the store
\* #updateAction(id, newState): { ...actions[id], ...newState }
UpdateAction(acts, id, newState) ==
    [acts EXCEPT ![id] =
        [f \in (DOMAIN acts[id]) \cup (DOMAIN newState) |->
            IF f \in DOMAIN newState THEN newState[f] ELSE acts[id][f]]]

\* The record addAction stores: { ...data.action, status: 'pending', executed: false }
NewRecord(data) ==
    [keys |-> data.keys, type |-> data.type, content |-> data.content,
     filePath |-> data.filePath, language |-> data.language, outputDir |-> data.outputDir,
     status |-> "pending", executed |-> FALSE]

\* Variant: the update leaves `executed` as it was.
Finalized_NotMarked(action, data) ==
    [f \in DOMAIN action |->
        IF f = "keys" THEN action.keys \cup data.keys
        ELSE IF f \in data.keys THEN data[f]
        ELSE action[f]]

\* Variant: the update also marks the record running.
Finalized_SetsRunning(action, data) ==
    [f \in DOMAIN action |->
        IF f = "executed" THEN TRUE
        ELSE IF f = "status" THEN "running"
        ELSE IF f = "keys" THEN action.keys \cup data.keys
        ELSE IF f \in data.keys THEN data[f]
        ELSE action[f]]

\* Variant: the update sets `executed` and drops the event's data.
Finalized_KeepsRegistered(action, data) ==
    [f \in DOMAIN action |-> IF f = "executed" THEN TRUE ELSE action[f]]

\* The update runAction applies: { ...action, ...data.action, executed: true }
Finalized(action, data) ==
    [f \in DOMAIN action |->
        IF f = "executed" THEN TRUE
        ELSE IF f = "keys" THEN action.keys \cup data.keys
        ELSE IF f \in data.keys THEN data[f]
        ELSE action[f]]

\* ------------------------------------------------------------ the promises
\* promise.then(reaction): queued on a pending promise, a microtask otherwise.
ThenReactions(k, r) ==
    IF promiseState[k] = "pending" THEN [reactions EXCEPT ![k] = Append(@, r)] ELSE reactions

ThenMicrotasks(k, r) ==
    IF promiseState[k] = "pending" THEN microtasks ELSE Append(microtasks, r)

\* Variant: the chain has no catch handler.
ChainSettle_NoCatch(how) == IF how = "return" THEN "fulfilled" ELSE "rejected"

\* State of the promise `.then(() => this.#executeAction(id)).catch(log)`,
\* given how the `then` part ended: the catch handler swallows a rejection.
ChainSettle(how) == "fulfilled"

\* Variant: a handler that returns leaves the status to the signal alone.
FinalUpdate_KeepsRunning(how, aborted) ==
    IF how = "return"
    THEN [status |-> IF aborted THEN "aborted" ELSE "running"]
    ELSE [status |-> "failed", error |-> "Action failed"]

\* Variant: a handler that returns always gives complete.
FinalUpdate_IgnoresSignal(how, aborted) ==
    IF how = "return"
    THEN [status |-> "complete"]
    ELSE [status |-> "failed", error |-> "Action failed"]

\* #executeAction's last update: line 122 on a normal return, line 124 on a throw.
FinalUpdate(how, aborted) ==
    IF how = "return"
    THEN [status |-> IF aborted THEN "aborted" ELSE "complete"]
    ELSE [status |-> "failed", error |-> "Action failed"]

\* Position of #executeAction after line 104, by the type of the record read.
FirstStep(action) ==
    CASE action.type = "shell" -> "spawn"
      [] action.type = "file" ->
            IF Folder(action.filePath) # <<".">> THEN "mkdir" ELSE "writeFile"
      [] action.type = "contract" -> "readFile"

\* --------------------------------------------------------- public methods
RECURSIVE SumFrom(_, _, _)
\* f[a] + ... + f[b]
SumFrom(f, a, b) == IF a > b THEN 0 ELSE f[a] + SumFrom(f, a + 1, b)

\* The sandbox calls that rejected so far.
Faults == SumFrom([i \in Ids |-> Cardinality(rejected[i])], 1, MaxActions)

\* The inputs so far that changed the state: one per record, one per
\* dispatched action, one per abort(), one per runAction for an identifier
\* without a record, one per rejected sandbox call.
Events ==
    Cardinality({i \in Ids : actions[i] # NoAction}) + Len(chain) + nAborts
        + unknownRuns.calls + Faults

\* Whether the sandbox may answer a call with `ok`.
SandboxMay(ok) == ok \/ Events < MaxEvents

\* Variant: runAction never stores the promise it chains, so the field stays
\* the initial Promise.resolve().
CurrentExecutionPromise_NotAdvanced == Len(<<>>)

\* The index of the promise this.#currentExecutionPromise holds: runAction
\* replaces it by the promise it chains (line 92).
CurrentExecutionPromise == Len(chain)

\* Variant: addAction has no guard for an identifier it already knows.
AlreadyAdded_Never(action) == FALSE

\* Whether addAction returns at lines 55-58: the identifier has a record.
AlreadyAdded(action) == action # NoAction

\* addAction(data), lines 49-76.  Identifiers are handed out in sequence.
AddAction(id, data) ==
    /\ IF id = 1 THEN TRUE ELSE actions[id - 1] # NoAction
    /\ IF AlreadyAdded(actions[id])
       THEN /\ data \in Announcements(actions[id])
            /\ UNCHANGED <<actions, reactions, microtasks>>
       ELSE /\ data.content = PartialContent
            /\ Events < MaxEvents
            /\ actions' = [actions EXCEPT ![id] = NewRecord(data)]
            /\ reactions' = ThenReactions(CurrentExecutionPromise,
                                [kind |-> "mark", id |-> id, on |-> CurrentExecutionPromise])
            /\ microtasks' = ThenMicrotasks(CurrentExecutionPromise,
                                [kind |-> "mark", id |-> id, on |-> CurrentExecutionPromise])
    /\ UNCHANGED panelVars
    /\ UNCHANGED <<abortSignal, chain, promiseState, pc, snap, proc, result, fs,
                   started, finalizeEvt, firstAbort, outcome, nAborts, written,
                   rejected, unknownRuns>>

\* Variant: runAction has no `executed` guard.
AlreadyDispatched_Never(action) == FALSE

\* Whether runAction returns at line 86-88 without dispatching.
AlreadyDispatched(action) == action.executed

\* Variant: runAction returns when the identifier has no record.
UnknownAction_Ignored(action) == IF action = NoAction THEN "return" ELSE "proceed"

\* What runAction does with the record it read at line 80: without one,
\* unreachable(...) at lines 82-84 throws and the promise the async method
\* returned is rejected.
UnknownAction(action) == IF action = NoAction THEN "throw" ELSE "proceed"

\* runAction(data), lines 78-99.
RunAction(id, data) ==
    /\ Len(chain) <= MaxActions
    /\ IF UnknownAction(actions[id]) # "proceed"
       THEN /\ Events < MaxEvents
            /\ unknownRuns' =
                    [calls |-> unknownRuns.calls + 1,
                     thrown |-> IF UnknownAction(actions[id]) = "throw"
                                THEN unknownRuns.thrown + 1 ELSE unknownRuns.thrown]
            /\ UNCHANGED <<actions, chain, reactions, microtasks, finalizeEvt>>
       ELSE IF AlreadyDispatched(actions[id])
       THEN /\ data \in Announcements(actions[id])
            /\ UNCHANGED <<actions, chain, reactions, microtasks, finalizeEvt, unknownRuns>>
       ELSE /\ data \in FinalizeData(actions[id])
            /\ Events < MaxEvents
            /\ UNCHANGED unknownRuns
            /\ actions' = UpdateAction(actions, id, Finalized(actions[id], data))
            /\ chain' = Append(chain, id)
            /\ reactions' = ThenReactions(CurrentExecutionPromise,
                                [kind |-> "exec", id |-> id, on |-> CurrentExecutionPromise])
            /\ microtasks' = ThenMicrotasks(CurrentExecutionPromise,
                                [kind |-> "exec", id |-> id, on |-> CurrentExecutionPromise])
            /\ finalizeEvt' = [finalizeEvt EXCEPT ![id] = data]
    /\ UNCHANGED panelVars
    /\ UNCHANGED <<abortSignal, promiseState, pc, snap, proc, result, fs,
                   started, firstAbort, outcome, nAborts, written, rejected>>

\* Variant: abort() leaves the status to #executeAction.
AbortUpdate_SignalOnly == [f \in {} |-> "aborted"]

\* The update abort() applies after raising the signal, line 68.
AbortUpdate == [status |-> "aborted"]

\* The record's abort(), lines 66-69: abortController.abort() raises the signal
\* and, the first time, runs the listener #runShellAction may have added
\* (line 142-144); then the status is set.
Abort(id) ==
    /\ actions[id] # NoAction
    /\ nAborts < MaxAborts
    /\ Events < MaxEvents
    /\ nAborts' = nAborts + 1
    /\ abortSignal' = [abortSignal EXCEPT ![id] = TRUE]
    /\ proc' = [proc EXCEPT ![id].killed = @ \/ (~abortSignal[id] /\ proc[id].listener)]
    /\ actions' = UpdateAction(actions, id, AbortUpdate)
    /\ firstAbort' = [firstAbort EXCEPT ![id] =
            IF abortSignal[id] THEN @
            ELSE [status |-> actions[id].status, executed |-> actions[id].executed,
                  pc |-> IF pc[id] \in {"idle", "spawn", "exit", "done"}
                         THEN pc[id] ELSE "handler"]]
    /\ UNCHANGED panelVars
    /\ UNCHANGED <<chain, promiseState, reactions, microtasks, pc, snap, result, fs,
                   started, finalizeEvt, outcome, written, rejected, unknownRuns>>

\* ------------------------------------------------------- #executeAction
\* The chain promise of a handler that ended settles, and the reactions
\* registered on it become microtasks.  `k` is the promise index.
Settle(k, how) ==
    /\ promiseState' = [promiseState EXCEPT ![k] = ChainSettle(how)]
    /\ microtasks' = microtasks \o reactions[k]
    /\ reactions' = [reactions EXCEPT ![k] = <<>>]

\* #executeAction ends (lines 122-128) and its chain promise settles.
Finish(id, how) ==
    /\ actions' = UpdateAction(actions, id, FinalUpdate(how, abortSignal[id]))
    /\ pc' = [pc EXCEPT ![id] = "done"]
    /\ outcome' = [outcome EXCEPT ![id] = how]
    /\ Settle(snap[id].promise, how)

\* A microtask runs: the reaction at the head of the queue.
\*  mark: the callback addAction attached (lines 73-75);
\*  exec: the callback runAction attached (lines 93-95), which enters
\*        #executeAction up to its first await (lines 101-104).
\* A `then` callback is skipped when its promise was rejected.
RunMark ==
    /\ microtasks # <<>>
    /\ Head(microtasks).kind = "mark"
    /\ microtasks' = Tail(microtasks)
    /\ actions' = IF promiseState[Head(microtasks).on] = "fulfilled"
                  THEN UpdateAction(actions, Head(microtasks).id, [status |-> "running"])
                  ELSE actions
    /\ UNCHANGED panelVars
    /\ UNCHANGED <<abortSignal, chain, promiseState, reactions, pc, snap, proc, result, fs,
                   started, finalizeEvt, firstAbort, outcome, nAborts, written,
                   rejected, unknownRuns>>

RunExec ==
    /\ microtasks # <<>>
    /\ Head(microtasks).kind = "exec"
    /\ LET id == Head(microtasks).id
           k  == Head(microtasks).on + 1
       IN  IF promiseState[k - 1] = "fulfilled"
           THEN /\ microtasks' = Tail(microtasks)
                /\ snap' = [snap EXCEPT ![id] =
                        [action |-> actions[id], promise |-> k]]
                /\ actions' = UpdateAction(actions, id, [status |-> "running"])
                /\ pc' = [pc EXCEPT ![id] = FirstStep(actions[id])]
                /\ started' = Append(started, id)
                /\ UNCHANGED <<promiseState, reactions>>
           ELSE /\ promiseState' = [promiseState EXCEPT ![k] = ChainSettle("throw")]
                /\ microtasks' = Tail(microtasks) \o reactions[k]
                /\ reactions' = [reactions EXCEPT ![k] = <<>>]
                /\ UNCHANGED <<snap, actions, pc, started>>
    /\ UNCHANGED panelVars
    /\ UNCHANGED <<abortSignal, chain, proc, result, fs, finalizeEvt, firstAbort, outcome,
                   nAborts, written, rejected, unknownRuns>>

\* ------------------------------------------------------ #runShellAction
\* Variant: a non-zero exit code is raised as an error.
ShellExitOutcome_NonZeroThrows(exitCode) == IF exitCode = 0 THEN "return" ELSE "throw"

\* How the handler ends once the subprocess has exited with `exitCode`
\* (lines 157-160): it returns, whatever the code.
ShellExitOutcome(exitCode) == "return"

\* await webcontainer.spawn(...), lines 136-144
ShellSpawn(id, ok) ==
    /\ pc[id] = "spawn"
    /\ SandboxMay(ok)
    /\ IF ok
       THEN /\ proc' = [proc EXCEPT ![id] = [state |-> "live", listener |-> TRUE,
                                              killed |-> FALSE, exitCode |-> -1]]
            /\ pc' = [pc EXCEPT ![id] = "exit"]
            /\ UNCHANGED <<actions, outcome, promiseState, reactions, microtasks>>
       ELSE /\ Finish(id, "throw")
            /\ UNCHANGED proc
    /\ rejected' = [rejected EXCEPT ![id] = IF ok THEN @ ELSE @ \cup {"spawn"}]
    /\ UNCHANGED panelVars
    /\ UNCHANGED <<abortSignal, chain, snap, result, fs, started, finalizeEvt, firstAbort,
                   nAborts, written, unknownRuns>>

\* await process.exit, lines 157-160
ShellExit(id, exitCode) ==
    /\ pc[id] = "exit"
    /\ proc' = [proc EXCEPT ![id].state = "exited", ![id].exitCode = exitCode]
    /\ Finish(id, ShellExitOutcome(exitCode))
    /\ UNCHANGED panelVars
    /\ UNCHANGED <<abortSignal, chain, snap, result, fs, started, finalizeEvt, firstAbort,
                   nAborts, written, rejected, unknownRuns>>

\* ---------------------------------------------- rejected sandbox calls
\* Variant: the file handler's mkdir is awaited outside a try block.
RejectedCall_MkdirThrows(at) == IF at \in {"writeFile", "outDir"} THEN "continue" ELSE "throw"

\* Variant: every file-system call of the handlers sits in a try block that logs.
RejectedCall_AllLogged(at) == "continue"

\* What a rejected mkdir or writeFile at position `at` does to its handler.
\* The file handler's mkdir (lines 175-180) and writeFile (lines 183-188) and
\* the contract handler's mkdir (lines 217-221) sit in a try block whose catch
\* logs; the contract handler's writeFile calls are awaited bare and throw.
RejectedCall(at) == IF at \in {"mkdir", "writeFile", "outDir"} THEN "continue" ELSE "throw"

\* ------------------------------------------------------- #runFileAction
\* How the handler ends after writeFile settled (lines 183-189).
FileWriteOutcome(ok) == "return"

\* await webcontainer.fs.mkdir(folder), lines 174-181
FileMkdir(id, ok) ==
    /\ pc[id] = "mkdir"
    /\ SandboxMay(ok)
    /\ rejected' = [rejected EXCEPT ![id] = IF ok THEN @ ELSE @ \cup {"mkdir"}]
    /\ IF ok \/ RejectedCall("mkdir") = "continue"
       THEN /\ pc' = [pc EXCEPT ![id] = "writeFile"]
            /\ UNCHANGED <<actions, outcome, promiseState, reactions, microtasks>>
       ELSE Finish(id, "throw")
    /\ UNCHANGED panelVars
    /\ UNCHANGED <<abortSignal, chain, snap, proc, result, fs, started, finalizeEvt,
                   firstAbort, nAborts, written, unknownRuns>>

\* The file content line 184 hands to writeFile.
WrittenContent(action) == Text(action.content)

\* await webcontainer.fs.writeFile(filePath, content), lines 183-189
FileWrite(id, ok) ==
    /\ pc[id] = "writeFile"
    /\ SandboxMay(ok)
    /\ fs' = IF ok
             THEN (snap[id].action.filePath :> WrittenContent(snap[id].action)) @@ fs
             ELSE fs
    /\ written' = [written EXCEPT ![id] = IF ok THEN @ \cup {"writeFile"} ELSE @]
    /\ rejected' = [rejected EXCEPT ![id] = IF ok THEN @ ELSE @ \cup {"writeFile"}]
    /\ Finish(id, FileWriteOutcome(ok))
    /\ UNCHANGED panelVars
    /\ UNCHANGED <<abortSignal, chain, snap, proc, result, started, finalizeEvt, firstAbort,
                   nAborts, unknownRuns>>

\* --------------------------------------------------- #runContractAction
\* The write that follows position `at` of the success branch (lines 223-248):
\* an artifact is written only when the result has it.
NextWrite(at, res) ==
    IF at = "outDir" /\ Truthy(res.bytecode) THEN "bin"
    ELSE IF at \in {"outDir", "bin"} /\ Truthy(res.abi) THEN "abi"
    ELSE IF at \in {"outDir", "bin", "abi"} /\ Truthy(res.metadata) THEN "metadata"
    ELSE "report"

\* The path and content of the write made at position `at`.
WritePath(at, action) ==
    CASE at = "bin" -> BinPath(action)
      [] at = "abi" -> AbiPath(action)
      [] at = "metadata" -> MetadataPath(action)
      [] at = "report" -> ReportPath(action)
      [] at = "errorReport" -> ErrorPath(action)

WriteContent(at, action, res) ==
    CASE at = "bin" -> Text(res.bytecode)
      [] at = "abi" -> Text(res.abi)
      [] at = "metadata" -> Text(res.metadata)
      [] at = "report" -> Report(action, res)
      [] at = "errorReport" -> ErrorReport(action, res)

\* await readFile(filePath) and await compile(...), lines 198-208.  readFile
\* rejects when the sandbox fails or has no such file.
ContractCompile(id, ok, output) ==
    /\ pc[id] = "readFile"
    /\ SandboxMay(ok)
    /\ IF ok /\ snap[id].action.filePath \in DOMAIN fs
       THEN /\ result' = [result EXCEPT ![id] =
                    Compile(fs[snap[id].action.filePath].text, snap[id].action.language, output)]
            /\ pc' = [pc EXCEPT ![id] = "outDir"]
            /\ UNCHANGED <<actions, outcome, promiseState, reactions, microtasks>>
       ELSE /\ Finish(id, "throw")
            /\ UNCHANGED result
    /\ rejected' = [rejected EXCEPT ![id] =
            IF ok /\ snap[id].action.filePath \in DOMAIN fs THEN @ ELSE @ \cup {"readFile"}]
    /\ UNCHANGED panelVars
    /\ UNCHANGED <<abortSignal, chain, snap, proc, fs, started, finalizeEvt, firstAbort,
                   nAborts, written, unknownRuns>>

\* Variant: a result with warnings is taken as a failure.
Succeeded_WithoutWarnings(res) == res.success /\ res.warnings = <<>>

\* The branch #runContractAction takes on the compiler result, line 223.
Succeeded(res) == res.success

\* await mkdir(outputDir), lines 217-221
ContractMkdir(id, ok) ==
    /\ pc[id] = "outDir"
    /\ SandboxMay(ok)
    /\ rejected' = [rejected EXCEPT ![id] = IF ok THEN @ ELSE @ \cup {"outDir"}]
    /\ IF ok \/ RejectedCall("outDir") = "continue"
       THEN /\ pc' = [pc EXCEPT ![id] =
                    IF Succeeded(result[id]) THEN NextWrite("outDir", result[id])
                    ELSE "errorReport"]
            /\ UNCHANGED <<actions, outcome, promiseState, reactions, microtasks>>
       ELSE Finish(id, "throw")
    /\ UNCHANGED panelVars
    /\ UNCHANGED <<abortSignal, chain, snap, proc, result, fs, started, finalizeEvt,
                   firstAbort, nAborts, written, unknownRuns>>

\* One await writeFile(...) of the success branch, lines 225-248; after the
\* report the handler returns.  A rejected write throws.
ContractWrite(id, ok) ==
    /\ pc[id] \in {"bin", "abi", "metadata", "report"}
    /\ SandboxMay(ok)
    /\ written' = [written EXCEPT ![id] = IF ok THEN @ \cup {pc[id]} ELSE @]
    /\ rejected' = [rejected EXCEPT ![id] = IF ok THEN @ ELSE @ \cup {pc[id]}]
    /\ fs' = IF ok
             THEN (WritePath(pc[id], snap[id].action) :>
                        WriteContent(pc[id], snap[id].action, result[id])) @@ fs
             ELSE fs
    /\ IF ok \/ RejectedCall(pc[id]) = "continue"
       THEN IF pc[id] = "report"
            THEN Finish(id, "return")
            ELSE /\ pc' = [pc EXCEPT ![id] = NextWrite(pc[id], result[id])]
                 /\ UNCHANGED <<actions, outcome, promiseState, reactions, microtasks>>
       ELSE Finish(id, "throw")
    /\ UNCHANGED panelVars
    /\ UNCHANGED <<abortSignal, chain, snap, proc, result, started, finalizeEvt, firstAbort,
                   nAborts, unknownRuns>>

\* await writeFile(`${outputPath}.error.json`), lines 258-276, then the throw.
ContractWriteError(id, ok) ==
    /\ pc[id] = "errorReport"
    /\ SandboxMay(ok)
    /\ written' = [written EXCEPT ![id] = IF ok THEN @ \cup {"errorReport"} ELSE @]
    /\ fs' = IF ok
             THEN (ErrorPath(snap[id].action) :> ErrorReport(snap[id].action, result[id])) @@ fs
             ELSE fs
    /\ rejected' = [rejected EXCEPT ![id] = IF ok THEN @ ELSE @ \cup {"errorReport"}]
    /\ Finish(id, "throw")
    /\ UNCHANGED panelVars
    /\ UNCHANGED <<abortSignal, chain, snap, proc, result, started, finalizeEvt, firstAbort,
                   nAborts, unknownRuns>>

\* ------------------------------------------------------ the contract panel
\* ContractPanel.tsx: each click on Compile is one call of
\* handleCompileContract, an async function; the calls interleave at their
\* awaits.  The state setters take updater functions, which React applies in
\* the order they were queued.
Calls == 1..MaxJobs

Languages == {"solidity", "rust", "javascript"}

\* workbenchStore.selectedFile when no file is selected.
NoFile == <<>>

PanelFiles ==
    { <<"C", ".", "sol">>, <<"lib", ".", "RS">>, <<"c", ".", "ts">>, <<"README">> }

\* String.prototype.toLowerCase on one token.
ToLowerCase(tok) ==
    CASE tok = "RS" -> "rs"
      [] tok = "README" -> "readme"
      [] tok = "C" -> "c"
      [] OTHER -> tok

\* selectedFile.split('.').pop()?.toLowerCase(), line 40: what follows the
\* last dot, or the whole name when it has none.
FileExtension(file) ==
    LET i == LastIndexOf(file, ".", Len(file))
    IN  [n \in 1..(Len(file) - i) |-> ToLowerCase(file[i + n])]

\* Lines 41-49.
DetectedLanguage(file, selectedLanguage) ==
    IF FileExtension(file) = <<"sol">> THEN "solidity"
    ELSE IF FileExtension(file) = <<"rs">> THEN "rust"
    ELSE IF FileExtension(file) \in {<<"js">>, <<"ts">>} THEN "javascript"
    ELSE selectedLanguage

\* The job of lines 51-56; an absent field is None.
NewJob(id, file, language) ==
    [id |-> id, fileName |-> file, language |-> language, status |-> "pending",
     errors |-> None, artifacts |-> None]

\* updateJobStatus, lines 343-354: every job with this id is replaced.
UpdateJobStatus(jobs, jobId, status, errors, artifacts) ==
    [i \in 1..Len(jobs) |->
        IF jobs[i].id = jobId
        THEN [jobs[i] EXCEPT !.status = status, !.errors = errors, !.artifacts = artifacts]
        ELSE jobs[i]]

\* What the output of `node compile-temp.js` collected by the time the process
\* exit resolved holds: for each marker line whether the panel's regular
\* expression finds it and whether JSON.parse accepts what follows it, and
\* whether the text mentions @openzeppelin/contracts.
ScriptOutputs ==
    { [success |-> "json", errors |-> "none", warnings |-> "none", openzeppelin |-> FALSE],
      [success |-> "json", errors |-> "none", warnings |-> "garbled", openzeppelin |-> FALSE],
      [success |-> "garbled", errors |-> "none", warnings |-> "none", openzeppelin |-> FALSE],
      [success |-> "none", errors |-> "json", warnings |-> "none", openzeppelin |-> FALSE],
      [success |-> "none", errors |-> "json", warnings |-> "none", openzeppelin |-> TRUE],
      [success |-> "none", errors |-> "garbled", warnings |-> "none", openzeppelin |-> TRUE],
      [success |-> "none", errors |-> "none", warnings |-> "none", openzeppelin |-> FALSE] }

\* output.match(/<marker>: (.+)/)
Match(output, marker) == output[marker] # "none"

\* JSON.parse(match[1]) throws on a text that is not JSON.
JsonParses(output, marker) == output[marker] = "json"

CargoOutputs == {"", "error[E0425]"}

\* The step a call takes after `await webcontainer`, lines 82, 289, 316.
FirstAwait(language) ==
    CASE language = "solidity" -> "writeScript"
      [] language = "rust" -> "cargoSpawn"
      [] language = "javascript" -> "readFile"

\* A call ends having set its job's status.
EndCall(h, status, errors, artifacts) ==
    /\ compilationJobs' =
            UpdateJobStatus(compilationJobs, compileCalls[h].jobId, status, errors, artifacts)
    /\ compileCalls' = [compileCalls EXCEPT ![h].pc = "done"]

\* The outer catch, lines 336-340.
SetupFailed(h) == EndCall(h, "error", "Compilation setup failed", None)

\* The catch around the install and the retry, lines 249-254.
InstallFailed(h) == EndCall(h, "error", "Failed to install dependencies", None)

\* handleCompileContract up to the first await of compileWithWebContainer,
\* lines 34-76: without a selected file it alerts and returns; otherwise the
\* job is put in front of the list with Date.now() as its id and set to
\* compiling.
HandleCompileContract(h, file, selectedLanguage, now) ==
    /\ compileCalls[h].pc = "idle"
    /\ IF h = 1 THEN TRUE ELSE compileCalls[h - 1].pc # "idle"
    /\ IF file = NoFile
       THEN UNCHANGED panelVars
       ELSE /\ clock' = now
            /\ compilationJobs' =
                    UpdateJobStatus(
                        <<NewJob(now, file, DetectedLanguage(file, selectedLanguage))>>
                            \o compilationJobs,
                        now, "compiling", None, None)
            /\ compileCalls' = [compileCalls EXCEPT ![h] =
                    [pc |-> "container", jobId |-> now,
                     language |-> DetectedLanguage(file, selectedLanguage),
                     exitCode |-> -1]]
    /\ UNCHANGED runnerVars

\* await webcontainer, line 76.
AwaitContainer(h, ok) ==
    /\ compileCalls[h].pc = "container"
    /\ IF ok
       THEN /\ compileCalls' = [compileCalls EXCEPT ![h].pc = FirstAwait(compileCalls[h].language)]
            /\ UNCHANGED compilationJobs
       ELSE SetupFailed(h)
    /\ UNCHANGED <<clock, runnerVars>>

\* await container.fs.writeFile('compile-temp.js', ...), line 174.
WriteScript(h, ok) ==
    /\ compileCalls[h].pc = "writeScript"
    /\ IF ok
       THEN /\ compileCalls' = [compileCalls EXCEPT ![h].pc = "spawn"]
            /\ UNCHANGED compilationJobs
       ELSE SetupFailed(h)
    /\ UNCHANGED <<clock, runnerVars>>

\* await container.spawn('node', ['compile-temp.js']), lines 177-179.
SpawnNode(h, ok) ==
    /\ compileCalls[h].pc = "spawn"
    /\ IF ok
       THEN /\ compileCalls' = [compileCalls EXCEPT ![h].pc = "exit"]
            /\ UNCHANGED compilationJobs
       ELSE SetupFailed(h)
    /\ UNCHANGED <<clock, runnerVars>>

\* Lines 257-281 on an exit code and an output: the job list they leave and
\* whether a JSON.parse threw on the way.
AfterCompile(jobs, jobId, exitCode, output) ==
    IF exitCode = 0
    THEN IF Match(output, "success") /\ ~JsonParses(output, "success")
         THEN [jobs |-> jobs, thrown |-> TRUE]
         ELSE [jobs |-> IF Match(output, "success")
                        THEN UpdateJobStatus(jobs, jobId, "success", None, "artifacts")
                        ELSE jobs,
               thrown |-> Match(output, "warnings") /\ ~JsonParses(output, "warnings")]
    ELSE IF Match(output, "errors") /\ ~JsonParses(output, "errors")
         THEN [jobs |-> jobs, thrown |-> TRUE]
         ELSE [jobs |-> UpdateJobStatus(jobs, jobId, "error",
                            IF Match(output, "errors") THEN "compiler errors"
                            ELSE "Unknown compilation error", None),
               thrown |-> FALSE]

\* The call goes on from line 257 to the cleanup, or to the outer catch.
Conclude(h, exitCode, output) ==
    LET after == AfterCompile(compilationJobs, compileCalls[h].jobId, exitCode, output)
    IN  IF after.thrown
        THEN /\ compilationJobs' =
                    UpdateJobStatus(after.jobs, compileCalls[h].jobId, "error",
                                    "Compilation setup failed", None)
             /\ compileCalls' = [compileCalls EXCEPT ![h].pc = "done", ![h].exitCode = exitCode]
        ELSE /\ compilationJobs' = after.jobs
             /\ compileCalls' = [compileCalls EXCEPT ![h].pc = "cleanup", ![h].exitCode = exitCode]

\* await process.exit, lines 192-197, and what follows up to the next await.
NodeExit(h, exitCode, output) ==
    /\ compileCalls[h].pc = "exit"
    /\ IF exitCode # 0 /\ output.openzeppelin
       THEN /\ compileCalls' =
                    [compileCalls EXCEPT ![h].pc = "installSpawn", ![h].exitCode = exitCode]
            /\ UNCHANGED compilationJobs
       ELSE Conclude(h, exitCode, output)
    /\ UNCHANGED <<clock, runnerVars>>

\* await container.spawn('npm', ['install', ...]), lines 202-204.
SpawnInstall(h, ok) ==
    /\ compileCalls[h].pc = "installSpawn"
    /\ IF ok
       THEN /\ compileCalls' = [compileCalls EXCEPT ![h].pc = "installExit"]
            /\ UNCHANGED compilationJobs
       ELSE InstallFailed(h)
    /\ UNCHANGED <<clock, runnerVars>>

\* await installProcess.exit, line 206; the exit code is not looked at.
InstallExit(h) ==
    /\ compileCalls[h].pc = "installExit"
    /\ compileCalls' = [compileCalls EXCEPT ![h].pc = "retrySpawn"]
    /\ UNCHANGED <<compilationJobs, clock, runnerVars>>

\* await container.spawn('node', ['compile-temp.js']) of the retry, lines 209-211.
SpawnRetry(h, ok) ==
    /\ compileCalls[h].pc = "retrySpawn"
    /\ IF ok
       THEN /\ compileCalls' = [compileCalls EXCEPT ![h].pc = "retryExit"]
            /\ UNCHANGED compilationJobs
       ELSE InstallFailed(h)
    /\ UNCHANGED <<clock, runnerVars>>

\* await retryProcess.exit, lines 222-248.  A retry that exits 0 without the
\* success marker leaves the try block and goes on at line 257 with the first
\* exit code and the retry's output.
RetryExit(h, retryExitCode, output) ==
    /\ compileCalls[h].pc = "retryExit"
    /\ IF retryExitCode = 0
       THEN IF Match(output, "success")
            THEN IF JsonParses(output, "success")
                 THEN EndCall(h, "success", None, "artifacts")
                 ELSE InstallFailed(h)
            ELSE Conclude(h, compileCalls[h].exitCode, output)
       ELSE IF Match(output, "errors")
            THEN IF JsonParses(output, "errors")
                 THEN EndCall(h, "error", "compiler errors", None)
                 ELSE InstallFailed(h)
            ELSE EndCall(h, "error",
                         "Compilation failed even after installing dependencies", None)
    /\ UNCHANGED <<clock, runnerVars>>

\* await container.fs.rm('compile-temp.js'), lines 284-288: a rejection is
\* ignored.
Cleanup(h, ok) ==
    /\ compileCalls[h].pc = "cleanup"
    /\ compileCalls' = [compileCalls EXCEPT ![h].pc = "done"]
    /\ UNCHANGED <<compilationJobs, clock, runnerVars>>

\* await container.spawn('cargo', ...), lines 291-293.
SpawnCargo(h, ok) ==
    /\ compileCalls[h].pc = "cargoSpawn"
    /\ IF ok
       THEN /\ compileCalls' = [compileCalls EXCEPT ![h].pc = "cargoExit"]
            /\ UNCHANGED compilationJobs
       ELSE SetupFailed(h)
    /\ UNCHANGED <<clock, runnerVars>>

\* await process.exit of cargo, lines 304-315.
CargoExit(h, exitCode, output) ==
    /\ compileCalls[h].pc = "cargoExit"
    /\ IF exitCode = 0
       THEN EndCall(h, "success", None, "Rust compilation successful")
       ELSE EndCall(h, "error",
                    IF Truthy(output) THEN output ELSE "Rust compilation failed", None)
    /\ UNCHANGED <<clock, runnerVars>>

\* The JavaScript branch, lines 316-335: readFile and `new Function` inside
\* one try block.
ValidateJavaScript(h, ok, sourceCode) ==
    /\ compileCalls[h].pc = "readFile"
    /\ IF ok /\ sourceCode \in ValidJavaScript
       THEN EndCall(h, "success", None, "JavaScript validation successful")
       ELSE EndCall(h, "error", "JavaScript syntax error", None)
    /\ UNCHANGED <<clock, runnerVars>>

\* ------------------------------------------------------- specification
Next ==
    \/ \E id \in Ids, data \in Registrations : AddAction(id, data)
    \/ \E id \in Ids, data \in Registrations : RunAction(id, data)
    \/ \E id \in Ids : Abort(id)
    \/ RunMark
    \/ RunExec
    \/ \E id \in Ids, ok \in BOOLEAN : ShellSpawn(id, ok)
    \/ \E id \in Ids, code \in ExitCodes : ShellExit(id, code)
    \/ \E id \in Ids, ok \in BOOLEAN : FileMkdir(id, ok)
    \/ \E id \in Ids, ok \in BOOLEAN : FileWrite(id, ok)
    \/ \E id \in Ids, ok \in BOOLEAN, output \in SolcOutputs : ContractCompile(id, ok, output)
    \/ \E id \in Ids, ok \in BOOLEAN : ContractMkdir(id, ok)
    \/ \E id \in Ids, ok \in BOOLEAN : ContractWrite(id, ok)
    \/ \E id \in Ids, ok \in BOOLEAN : ContractWriteError(id, ok)

Spec == Init /\ [][Next]_vars

\* A session that streams only rust and JavaScript contract actions.
ContractNext ==
    \/ \E id \in Ids, data \in ContractRegistrations : AddAction(id, data)
    \/ \E id \in Ids, data \in ContractRegistrations : RunAction(id, data)
    \/ \E id \in Ids : Abort(id)
    \/ RunMark
    \/ RunExec
    \/ \E id \in Ids, ok \in BOOLEAN, output \in SolcOutputs : ContractCompile(id, ok, output)
    \/ \E id \in Ids, ok \in BOOLEAN : ContractMkdir(id, ok)
    \/ \E id \in Ids, ok \in BOOLEAN : ContractWrite(id, ok)
    \/ \E id \in Ids, ok \in BOOLEAN : ContractWriteError(id, ok)

ContractSpec == ContractInit /\ [][ContractNext]_vars

\* A session of the contract panel.
PanelNext ==
    \/ \E h \in Calls, file \in PanelFiles \cup {NoFile}, selectedLanguage \in Languages,
          now \in {clock, clock + 1} :
            HandleCompileContract(h, file, selectedLanguage, now)
    \/ \E h \in Calls, ok \in BOOLEAN : AwaitContainer(h, ok)
    \/ \E h \in Calls, ok \in BOOLEAN : WriteScript(h, ok)
    \/ \E h \in Calls, ok \in BOOLEAN : SpawnNode(h, ok)
    \/ \E h \in Calls, exitCode \in ExitCodes, output \in ScriptOutputs :
            NodeExit(h, exitCode, output)
    \/ \E h \in Calls, ok \in BOOLEAN : SpawnInstall(h, ok)
    \/ \E h \in Calls : InstallExit(h)
    \/ \E h \in Calls, ok \in BOOLEAN : SpawnRetry(h, ok)
    \/ \E h \in Calls, exitCode \in ExitCodes, output \in ScriptOutputs :
            RetryExit(h, exitCode, output)
    \/ \E h \in Calls, ok \in BOOLEAN : Cleanup(h, ok)
    \/ \E h \in Calls, ok \in BOOLEAN : SpawnCargo(h, ok)
    \/ \E h \in Calls, exitCode \in ExitCodes, output \in CargoOutputs :
            CargoExit(h, exitCode, output)
    \/ \E h \in Calls, ok \in BOOLEAN, sourceCode \in ContractSources :
            ValidateJavaScript(h, ok, sourceCode)

PanelSpec == Init /\ [][PanelNext]_vars

\* ------------------------------------------------------------ properties
Range(seq) == {seq[i] : i \in 1..Len(seq)}

Count(seq, x) == Cardinality({i \in 1..Len(seq) : seq[i] = x})

IsPrefix(a, b) == Len(a) <= Len(b) /\ \A i \in 1..Len(a) : a[i] = b[i]

RECURSIVE FirstOccurrences(_)
\* The sequence without the repeated occurrences of its elements.
FirstOccurrences(seq) ==
    IF seq = <<>> THEN <<>>
    ELSE LET front == FirstOccurrences(SubSeq(seq, 1, Len(seq) - 1))
         IN  IF seq[Len(seq)] \in Range(front) THEN front ELSE Append(front, seq[Len(seq)])

\* The identifiers in the order of their first finalize event.
FinalizeOrder == FirstOccurrences(chain)

\* i was finalized before j.
FinalizedBefore(i, j) ==
    \E a, b \in 1..Len(FinalizeOrder) :
        a < b /\ FinalizeOrder[a] = i /\ FinalizeOrder[b] = j

HandlerRuns(id) == pc[id] \in Executing

\* C1: handlers are started in exactly the order of the first finalize events
\* of their actions, and no handler is started a second time.
C1_StartsInFinalizeOrder == IsPrefix(started, FinalizeOrder)

\* Two actions finalized against their registration order have both started.
C1_Witness == started = <<2, 1>>

\* C2: at most one action handler is executing in any state.
C2_OneHandlerAtATime == Cardinality({id \in Ids : HandlerRuns(id)}) <= 1

\* The second queued handler runs after the first has ended.
C2_Witness ==
    /\ Len(started) = 2
    /\ pc[started[1]] = "done"
    /\ HandlerRuns(started[2])

\* C3: whatever finalize events arrive, a handler is invoked at most once per
\* identifier and the executed flag never goes from true back to false.
C3_AtMostOnce ==
    /\ [](\A id \in Ids : Count(started, id) <= 1)
    /\ [][\A id \in Ids : actions[id].executed => actions'[id].executed]_vars

\* A dispatched action whose handler has ended and that is still marked executed.
C3_Witness ==
    \E id \in Ids : Count(started, id) = 1 /\ pc[id] = "done" /\ actions[id].executed

\* The reaction that starts the handler of j is still due: it is a queued
\* microtask on a fulfilled promise, or it waits on a pending promise whose
\* own handler has not ended.
ExecScheduled(j) ==
    \/ \E n \in 1..Len(microtasks) :
          /\ microtasks[n].kind = "exec"
          /\ microtasks[n].id = j
          /\ promiseState[microtasks[n].on] = "fulfilled"
    \/ \E k \in 1..Len(chain) :
          /\ promiseState[k] = "pending"
          /\ pc[chain[k]] # "done"
          /\ \E n \in 1..Len(reactions[k]) :
                reactions[k][n].kind = "exec" /\ reactions[k][n].id = j

\* C4: when a handler raises, its record becomes failed, and the lane goes on:
\* every action finalized after it has had its handler started or still has
\* the start of its handler scheduled.
C4_FailureIsolation ==
    /\ [][\A id \in Ids : (outcome[id] = "none" /\ outcome'[id] = "throw")
                            => actions'[id].status = "failed"]_vars
    /\ [](\A i, j \in Ids :
            (outcome[i] = "throw" /\ FinalizedBefore(i, j))
                => (j \in Range(started) \/ ExecScheduled(j)))

\* A handler raised and the handler of a later action was started.
C4_Witness ==
    \E i, j \in Ids :
        outcome[i] = "throw" /\ FinalizedBefore(i, j) /\ j \in Range(started)

\* C5 (as claimed): a record whose status is complete, aborted or failed keeps
\* that status in every later step.
C5_TerminalAbsorbing ==
    [][\A id \in Ids : actions[id].status \in Terminal
                          => actions'[id].status = actions[id].status]_vars

\* The first abort() of the record came while it was pending and not finalized.
CancelledBeforeFinalize(id) ==
    firstAbort[id].status = "pending" /\ ~firstAbort[id].executed

\* C6 (as claimed): the handler of an action cancelled while pending, before
\* any finalize event, is never invoked, also when a finalize event follows.
C6_CancelledNeverRuns ==
    \A id \in Ids : CancelledBeforeFinalize(id) => id \notin Range(started)

\* The first abort() of the record came while its shell handler was executing.
CancelledWhileRunning(id) == firstAbort[id].pc \in {"spawn", "exit"}

\* C7 (as claimed): a shell action cancelled while it is running, the pending
\* spawn included, has its subprocess sent a kill request and ends aborted once
\* the subprocess has exited.
C7_RunningShellKilled ==
    \A id \in Ids :
        (CancelledWhileRunning(id) /\ proc[id].state = "exited")
            => (proc[id].killed /\ actions[id].status = "aborted")

\* C8: a shell action whose subprocess exited and that was never cancelled is
\* complete, whatever the exit code.
C8_AnyExitCodeCompletes ==
    \A id \in Ids :
        (proc[id].state = "exited" /\ ~abortSignal[id]) => actions[id].status = "complete"

\* A subprocess exited with a non-zero code and its action is complete.
C8_Witness ==
    \E id \in Ids :
        /\ proc[id].state = "exited"
        /\ proc[id].exitCode # 0
        /\ ~abortSignal[id]
        /\ actions[id].status = "complete"

\* The handler of a contract action ends in this step, the compiler having
\* reported success:false.
CompileFailureEnds(id) ==
    /\ result[id].compiled
    /\ ~result[id].success
    /\ pc[id] # "done"
    /\ pc'[id] = "done"

\* The compiler messages an error detail carries: the fixed text carries none.
MessagesIn(detail) == IF detail = "Action failed" THEN {} ELSE {detail}

\* C9 (as claimed): when the compiler reports success:false the record becomes
\* failed, its error detail carries the compiler's error list, and the error
\* report holding that list is at <outputDir>/<basename>.error.json.
C9_ErrorListOnRecord ==
    [][\A id \in Ids : CompileFailureEnds(id) =>
          /\ actions'[id].status = "failed"
          /\ Range(result[id].errors) \subseteq MessagesIn(actions'[id].error)
          /\ ErrorPath(snap[id].action) \in DOMAIN fs'
          /\ fs'[ErrorPath(snap[id].action)].errors = result[id].errors]_vars

\* C9 (amended): when the compiler reports success:false the record becomes
\* failed with the fixed error detail 'Action failed', and when the write of
\* the error report succeeded, <outputDir>/<basename>.error.json holds the
\* compiler's error list.
C9_FailedWithErrorReport ==
    [][\A id \in Ids : CompileFailureEnds(id) =>
          /\ actions'[id].status = "failed"
          /\ actions'[id].error = "Action failed"
          /\ "errorReport" \in written'[id] =>
                /\ ErrorPath(snap[id].action) \in DOMAIN fs'
                /\ fs'[ErrorPath(snap[id].action)].kind = "json"
                /\ fs'[ErrorPath(snap[id].action)].errors = result[id].errors]_vars

\* A failed compilation whose report is in the default output directory.
C9_Witness ==
    \E id \in Ids :
        /\ result[id].compiled
        /\ ~result[id].success
        /\ pc[id] = "done"
        /\ actions[id].status = "failed"
        /\ "errorReport" \in written[id]
        /\ fs[<<"contracts", "/", "artifacts", "/", "C", ".", "error", ".", "json">>].errors
              = <<"bad syntax">>

\* C10: a file action that was not cancelled and whose write succeeded becomes
\* complete, and the file at its path then holds the content of the finalize
\* event.
C10_FileHoldsFinalContent ==
    [][\A id \in Ids :
          (/\ pc[id] = "writeFile"
           /\ pc'[id] = "done"
           /\ "writeFile" \in written'[id]
           /\ ~abortSignal[id])
          => /\ actions'[id].status = "complete"
             /\ finalizeEvt[id].filePath \in DOMAIN fs'
             /\ fs'[finalizeEvt[id].filePath] = Text(finalizeEvt[id].content)]_vars

\* A completed file action whose file holds the finalized content.
C10_Witness ==
    \E id \in Ids :
        /\ actions[id].status = "complete"
        /\ "writeFile" \in written[id]
        /\ finalizeEvt[id].content = "hi"
        /\ fs[<<"d", "/", "a">>] = Text("hi")

\* C11: a rejected mkdir of a file action's parent directory never fails the
\* action: the handler goes on to the write, it ends by returning, and when
\* the write succeeded and the action was not cancelled the record is complete.
C11_MkdirFailureTolerated ==
    \A id \in Ids :
        "mkdir" \in rejected[id] =>
            /\ pc[id] \in {"writeFile", "done"}
            /\ pc[id] = "done" =>
                  /\ outcome[id] = "return"
                  /\ "writeFile" \in written[id] \cup rejected[id]
                  /\ ("writeFile" \in written[id] /\ ~abortSignal[id])
                        => actions[id].status = "complete"

\* A file action is complete although the mkdir of its folder was rejected.
C11_Witness ==
    \E id \in Ids :
        /\ "mkdir" \in rejected[id]
        /\ "writeFile" \in written[id]
        /\ actions[id].type = "file"
        /\ actions[id].status = "complete"

\* C12 (as claimed): a file action whose writeFile call was rejected, and which
\* was not cancelled, ends with its record in failed.
C12_RejectedWriteFails ==
    \A id \in Ids :
        ("writeFile" \in rejected[id] /\ pc[id] = "done" /\ ~abortSignal[id])
            => actions[id].status = "failed"

\* C13: addAction for an identifier that already has a record changes nothing:
\* no such call, whatever its data and whatever the record's status, can end
\* with the records (spec fields, status, executed), the cancellation signals
\* or the lane's callbacks different from before, and the identifier still
\* maps to that one record.
C13_ReRegistrationIsNoOp ==
    \A id \in Ids :
        actions[id] # NoAction =>
            ~ENABLED (\E data \in Registrations :
                        /\ AddAction(id, data)
                        /\ \/ actions' # actions
                           \/ abortSignal' # abortSignal
                           \/ reactions' # reactions
                           \/ microtasks' # microtasks)

\* A complete record and a running one can each be registered again, with
\* content that differs from the record's.
C13_Witness ==
    \E i, j \in Ids :
        /\ actions[i].status = "complete"
        /\ actions[j].status = "running"
        /\ ENABLED (\E data \in Registrations :
                        data.content # actions[i].content /\ AddAction(i, data))
        /\ ENABLED (\E data \in Registrations :
                        data.content # actions[j].content /\ AddAction(j, data))

\* C14 (as claimed): no record has executed = true with status pending, and no
\* record has status running with executed = false.
C14_ExecutedWithRunning ==
    \A id \in Ids :
        actions[id] # NoAction =>
            /\ ~(actions[id].executed /\ actions[id].status = "pending")
            /\ ~(actions[id].status = "running" /\ ~actions[id].executed)

\* C14 (amended): executed becomes true in the runAction call that dispatches
\* the action, before its handler starts: a record whose handler has been
\* started has executed = true, and a record with executed = false has no
\* handler started and no place in the lane.
C14_ExecutedBeforeHandler ==
    \A id \in Ids :
        actions[id] # NoAction =>
            /\ (pc[id] # "idle" \/ id \in Range(chain)) => actions[id].executed
            /\ actions[id].executed => id \in Range(chain)

\* A dispatched record waits in the lane with executed = true and status
\* pending while the handler of an earlier action runs.
C14_Witness ==
    \E i, j \in Ids :
        /\ HandlerRuns(i)
        /\ actions[i].executed
        /\ actions[i].status = "running"
        /\ FinalizedBefore(i, j)
        /\ pc[j] = "idle"
        /\ actions[j].executed
        /\ actions[j].status = "pending"

\* C15: a handler that returned normally left its record aborted when the
\* cancellation signal had been raised before the return and complete when it
\* had not; a normal return never gives failed.
C15_ReturnGivesAbortedOrComplete ==
    \A id \in Ids :
        outcome[id] = "return" =>
            /\ actions[id].status # "failed"
            /\ (abortSignal[id] /\ firstAbort[id].pc # "done")
                  => actions[id].status = "aborted"
            /\ ~abortSignal[id] => actions[id].status = "complete"

\* One handler returned after its action was cancelled while it ran, another
\* returned without a cancellation.
C15_Witness ==
    \E i, j \in Ids :
        /\ outcome[i] = "return"
        /\ firstAbort[i].pc \in {"spawn", "exit", "handler"}
        /\ actions[i].status = "aborted"
        /\ outcome[j] = "return"
        /\ ~abortSignal[j]
        /\ actions[j].status = "complete"

\* The first abort() of the record came while its handler was executing.
CancelledWhileExecuting(id) ==
    firstAbort[id].status = "running" /\ firstAbort[id].pc \in {"spawn", "exit", "handler"}

CancelledInLane(id) ==
    /\ firstAbort[id].status = "pending"
    /\ firstAbort[id].executed
    /\ firstAbort[id].pc = "idle"
    /\ \E i \in Ids : FinalizedBefore(i, id)

\* C17 (as claimed): the handler of an action cancelled after its finalize
\* event, while it is pending in the lane behind an earlier action, is never
\* invoked when the lane reaches it.
C17_CancelledInLaneNeverRuns ==
    \A id \in Ids : CancelledInLane(id) => id \notin Range(started)

\* C18 (as claimed): runAction for an identifier without a record raises no
\* error, and leaves the records and the lane as they were.
C18_UnknownDispatchIsNoOp ==
    [][unknownRuns'.calls # unknownRuns.calls =>
          /\ unknownRuns'.thrown = unknownRuns.thrown
          /\ actions' = actions
          /\ chain' = chain
          /\ reactions' = reactions
          /\ microtasks' = microtasks]_vars

\* C18 (amended): runAction for an identifier without a record throws (the
\* promise it returns is rejected); it creates no record, changes no record
\* and leaves the lane as it was.
C18_UnknownDispatchThrows ==
    [][unknownRuns'.calls # unknownRuns.calls =>
          /\ unknownRuns'.thrown = unknownRuns.thrown + 1
          /\ actions' = actions
          /\ chain' = chain
          /\ promiseState' = promiseState
          /\ reactions' = reactions
          /\ microtasks' = microtasks]_vars

\* runAction threw for the second identifier while the handler of the first,
\* the only record, was executing.
C18_Witness ==
    /\ unknownRuns.thrown = 1
    /\ HandlerRuns(1)
    /\ actions[2] = NoAction

\* The fields of a record or of an event that describe what to execute.
SpecOf(a) ==
    [type |-> a.type, content |-> a.content, filePath |-> a.filePath,
     language |-> a.language, outputDir |-> a.outputDir]

\* C19: once an action is dispatched its record carries the spec of its first
\* finalize event, the handler is started on that spec, and no step other than
\* the first finalize (a repeated registration, a later finalize event) changes
\* the spec fields of a record.
C19_SpecFromFirstFinalize ==
    /\ [](\A id \in Ids :
            /\ (actions[id] # NoAction /\ actions[id].executed)
                  => SpecOf(actions[id]) = SpecOf(finalizeEvt[id])
            /\ id \in Range(started)
                  => SpecOf(snap[id].action) = SpecOf(finalizeEvt[id]))
    /\ [][\A id \in Ids :
            (actions[id] # NoAction /\ actions'[id].executed = actions[id].executed)
                => SpecOf(actions'[id]) = SpecOf(actions[id])]_vars

\* A handler has run on the content of the finalize event, which differs from
\* the content the action was registered with, and the record can be
\* registered and finalized again.
C19_Witness ==
    \E id \in Ids :
        /\ pc[id] = "done"
        /\ snap[id].action.content = "hi"
        /\ actions[id].content = "hi"
        /\ ENABLED (\E data \in Registrations :
                        data.content # actions[id].content /\ AddAction(id, data))
        /\ ENABLED (\E data \in Registrations :
                        data.content # actions[id].content /\ RunAction(id, data))

\* The calls of the shell and contract handlers that are awaited outside a try
\* block that logs.
BareCalls == {"spawn", "readFile", "bin", "abi", "metadata", "report", "errorReport"}

\* C20 (as claimed): a shell or contract action with a rejected spawn, mkdir or
\* write, and not cancelled, ends failed; a file action with a rejected mkdir
\* still attempts its write.
C20_RejectionFailsShellAndContract ==
    \A id \in Ids :
        pc[id] = "done" =>
            /\ (rejected[id] \cap (BareCalls \cup {"outDir"}) # {} /\ ~abortSignal[id])
                  => actions[id].status = "failed"
            /\ "mkdir" \in rejected[id] => "writeFile" \in written[id] \cup rejected[id]

\* C20 (amended): a rejected spawn, readFile or writeFile of a shell or
\* contract action makes #executeAction end in its catch, which leaves the
\* record failed; a rejected mkdir stops neither the contract handler nor the
\* file handler, which go on to their writes, and a contract action whose only
\* rejected call is the mkdir ends as its compilation result says.
C20_RejectionOutcomes ==
    \A id \in Ids :
        /\ "outDir" \in rejected[id]
              => pc[id] \in {"bin", "abi", "metadata", "report", "errorReport", "done"}
        /\ "mkdir" \in rejected[id] => pc[id] \in {"writeFile", "done"}
        /\ pc[id] = "done" =>
              /\ rejected[id] \cap BareCalls # {} =>
                    /\ outcome[id] = "throw"
                    /\ ~abortSignal[id] => actions[id].status = "failed"
              /\ rejected[id] = {"outDir"} =>
                    outcome[id] = (IF result[id].success THEN "return" ELSE "throw")
              /\ "mkdir" \in rejected[id] => "writeFile" \in written[id] \cup rejected[id]

\* A contract action whose mkdir was rejected went on to write the bytecode,
\* and the rejection of that write left it failed.
C20_Witness ==
    \E id \in Ids :
        /\ rejected[id] = {"outDir", "bin"}
        /\ pc[id] = "done"
        /\ actions[id].status = "failed"

\* The handler positions at which a sandbox call is started after an earlier
\* await of the same handler.
LaterCalls == {"writeFile", "outDir", "bin", "abi", "metadata", "report", "errorReport"}

\* C21 (as claimed): once the cancellation signal of an action is raised while
\* its handler is executing, the handler starts no further sandbox call.
C21_NoCallAfterCancellation ==
    [][\A id \in Ids :
          (CancelledWhileExecuting(id) /\ HandlerRuns(id) /\ pc'[id] # pc[id])
              => pc'[id] \notin LaterCalls]_vars

\* The awaits a handler at position p still has before it, at most.
Rank(p) ==
    CASE p = "done" -> 0
      [] p \in {"exit", "writeFile", "report", "errorReport"} -> 1
      [] p \in {"spawn", "mkdir", "metadata"} -> 2
      [] p = "abi" -> 3
      [] p = "bin" -> 4
      [] p = "outDir" -> 5
      [] p = "readFile" -> 6
      [] p = "idle" -> 7

\* A step of the lane or of a handler: no call of addAction, runAction or
\* abort() is part of it.
LaneStep ==
    /\ chain' = chain
    /\ nAborts' = nAborts
    /\ unknownRuns' = unknownRuns
    /\ \A i \in Ids : (actions'[i] = NoAction) <=> (actions[i] = NoAction)

\* The lane has nothing to do: no callback is queued and no handler executes.
LaneIdle == microtasks = <<>> /\ \A i \in Ids : ~HandlerRuns(i)

\* The steps of the lane and of the handlers, with a sandbox that answers
\* `ok` to every call it may answer so.
LaneSteps(oks) ==
    \/ RunMark
    \/ RunExec
    \/ \E id \in Ids, ok \in oks : ShellSpawn(id, ok)
    \/ \E id \in Ids, code \in ExitCodes : ShellExit(id, code)
    \/ \E id \in Ids, ok \in oks : FileMkdir(id, ok)
    \/ \E id \in Ids, ok \in oks : FileWrite(id, ok)
    \/ \E id \in Ids, ok \in oks, output \in SolcOutputs : ContractCompile(id, ok, output)
    \/ \E id \in Ids, ok \in oks : ContractMkdir(id, ok)
    \/ \E id \in Ids, ok \in oks : ContractWrite(id, ok)
    \/ \E id \in Ids, ok \in oks : ContractWriteError(id, ok)

\* C22: every dispatched action reaches a terminal status when the handlers
\* settle.  As a property of finite runs: a step of a handler leaves it fewer
\* awaits, a step of the lane that starts or advances no handler takes a
\* callback off the queue, a lane that is not idle can take a step when the
\* sandbox calls settle, and when the lane is idle every dispatched action has
\* ended with its record in complete, aborted or failed.
C22_DispatchedReachTerminal ==
    /\ [][LaneStep =>
            IF pc' = pc
            THEN Len(microtasks') < Len(microtasks)
            ELSE \A id \in Ids : pc'[id] # pc[id] => Rank(pc'[id]) < Rank(pc[id])]_vars
    /\ [](~LaneIdle => ENABLED LaneSteps({TRUE}))
    /\ [](LaneIdle =>
            \A id \in Range(chain) : pc[id] = "done" /\ actions[id].status \in Terminal)

\* Two dispatched actions have ended, the first one failed, and the lane is idle.
C22_Witness ==
    /\ Len(chain) = 2
    /\ LaneIdle
    /\ actions[chain[1]].status = "failed"
    /\ actions[chain[2]].status \in Terminal
    /\ pc[chain[2]] = "done"

\* A call of runAction is part of the step.
RunActionStep == chain' # chain \/ unknownRuns' # unknownRuns

C24_NoStaleArtifacts ==
    \A id \in Range(started) :
        snap[id].action.type = "contract" =>
            ~(/\ ReportPath(snap[id].action) \in DOMAIN fs
              /\ ErrorPath(snap[id].action) \in DOMAIN fs)

\* C25: a contract action whose compiler result has success: true, that was
\* not cancelled and whose writes all succeeded, is complete whatever warnings
\* the result carries; <outputDir>/<basename>.report.json holds a report with
\* success: true, and the run wrote no error report.
C25_SuccessCompletes ==
    \A id \in Ids :
        (/\ pc[id] = "done"
         /\ result[id].success
         /\ ~abortSignal[id]
         /\ rejected[id] \cap {"bin", "abi", "metadata", "report"} = {})
        => /\ actions[id].status = "complete"
           /\ "report" \in written[id]
           /\ ReportPath(snap[id].action) \in DOMAIN fs
           /\ fs[ReportPath(snap[id].action)].kind = "json"
           /\ fs[ReportPath(snap[id].action)].success
           /\ "errorReport" \notin written[id] \cup rejected[id]

\* A compilation that succeeded with a warning is complete, and its report
\* in the default output directory lists the warning.
C25_Witness ==
    \E id \in Ids :
        /\ pc[id] = "done"
        /\ result[id].success
        /\ result[id].warnings = <<"unused variable">>
        /\ actions[id].status = "complete"
        /\ fs[<<"contracts", "/", "artifacts", "/", "C", ".", "report", ".", "json">>]
              = [kind |-> "json", success |-> TRUE,
                 fileName |-> <<"src", "/", "C", ".", "sol">>, language |-> "solidity",
                 warnings |-> <<"unused variable">>]

\* C26: records are never removed and never retried: an identifier that has a
\* record keeps one, an error detail once on a record stays on it, and a
\* record that became failed or aborted after its handler was invoked never
\* has the handler invoked again.
C26_RecordsKeptNeverRetried ==
    [][\A id \in Ids :
          actions[id] # NoAction =>
              /\ actions'[id] # NoAction
              /\ "error" \in DOMAIN actions[id] =>
                    /\ "error" \in DOMAIN actions'[id]
                    /\ actions'[id].error = actions[id].error
              /\ (actions[id].status \in {"failed", "aborted"} /\ id \in Range(started))
                    => Count(started', id) = Count(started, id)]_vars

\* A failed record carries its error detail, and a finalize event for it can
\* still arrive.
C26_Witness ==
    \E id \in Ids :
        /\ pc[id] = "done"
        /\ actions[id].status = "failed"
        /\ actions[id].error = "Action failed"
        /\ ENABLED (\E data \in Registrations : RunAction(id, data))

C28_ErrorIffFailed ==
    \A id \in Ids :
        actions[id] # NoAction =>
            ("error" \in DOMAIN actions[id] <=> actions[id].status = "failed")

\* A record of a contract action whose declared language is rust.
RustContract(id) ==
    /\ actions[id] # NoAction
    /\ actions[id].type = "contract"
    /\ actions[id].language = "rust"

\* C29: a rust contract action whose handler was invoked and has ended without
\* a cancellation is failed with an error detail, whatever the source holds;
\* the compiler result it got is success:false with a non-empty error list;
\* and in no state has a bytecode, ABI, metadata or success report file been
\* written for a rust contract.
C29_RustAlwaysFails ==
    \A id \in Ids :
        RustContract(id) =>
            /\ written[id] \cap {"bin", "abi", "metadata", "report"} = {}
            /\ BinPath(actions[id]) \notin DOMAIN fs
            /\ ReportPath(actions[id]) \notin DOMAIN fs
            /\ result[id].compiled => (~result[id].success /\ result[id].errors # <<>>)
            /\ (id \in Range(started) /\ pc[id] = "done" /\ ~abortSignal[id])
                    => (actions[id].status = "failed" /\ "error" \in DOMAIN actions[id])

\* A rust contract whose source is also valid JavaScript was compiled, its
\* error report was written and the record is failed, never cancelled.
C29_Witness ==
    \E id \in Ids :
        /\ RustContract(id)
        /\ fs[<<"src", "/", "lib", ".", "rs">>] = Text("hi")
        /\ result[id].compiled
        /\ pc[id] = "done"
        /\ ~abortSignal[id]
        /\ "errorReport" \in written[id]
        /\ ErrorPath(actions[id]) \in DOMAIN fs
        /\ actions[id].status = "failed"

\* A call of handleCompileContract for this job's id has not returned yet.
JobUnderWay(job) ==
    \E h \in Calls : compileCalls[h].jobId = job.id /\ compileCalls[h].pc \notin {"idle", "done"}

\* C30 (as claimed): no job remains in compiling: once every call working on
\* a job has returned, which it does when its sandbox calls have settled and
\* its processes have exited, the job is in success or error, for every
\* language, exit code and output.
C30_NoJobLeftCompiling ==
    \A i \in 1..Len(compilationJobs) :
        compilationJobs[i].status = "compiling" => JobUnderWay(compilationJobs[i])

====
